---------------------------- MODULE Spec2Model ----------------------------
(***************************************************************************)
(* A model of node-resteemo (src/index.js): the factory that captures the  *)
(* referer string, the thirteen public operations of the facade, the path  *)
(* construction, the request dispatch and the response handler, together   *)
(* with the events the HTTP layer delivers for every issued request.       *)
(*                                                                         *)
(* JavaScript values are tagged records (field t names the type), strings  *)
(* are TLA+ strings, and a response body is the string the handler         *)
(* accumulates from its chunks and hands to JSON.parse.                    *)
(***************************************************************************)
EXTENDS Integers, Sequences, FiniteSets, TLC

-----------------------------------------------------------------------------
(* JavaScript values *)

Undefined == [t |-> "undefined"]

Null == [t |-> "null"]

Str(s) == [t |-> "string", s |-> s]

\* a number, kept as the decimal literal that denotes it (JSON's number
\* grammar); the literals of one number are told apart by Decimal below
Num(lit) == [t |-> "number", lit |-> lit]

Bool(b) == [t |-> "boolean", b |-> b]

\* a function, kept as its source text
Fn(source) == [t |-> "function", source |-> source]

\* members: a sequence of [k |-> key, v |-> value], in property order
Obj(members) == [t |-> "object", members |-> members]

Arr(items) == [t |-> "array", items |-> items]

\* an Error object
Err(name, message) == [t |-> "error", name |-> name, message |-> message]

-----------------------------------------------------------------------------
(* Strings.  A string is written unit by unit as a TLA+ string: a code unit  *)
(* from 20 to 7e other than the backslash (5c) and the backquote (60), and  *)
(* each of tab, newline, form feed and return, is its own character; every  *)
(* other code unit is the six characters \uxxxx, lower case.  A backslash   *)
(* in the TLA+ string therefore always starts such a group, and two         *)
(* different strings are never written alike.                               *)

\* the position of the character c in s at or after i, or Len(s) + 1
RECURSIVE IndexOf(_, _, _)
IndexOf(s, c, i) ==
  IF i > Len(s) THEN Len(s) + 1
  ELSE IF SubSeq(s, i, i) = c THEN i
  ELSE IndexOf(s, c, i + 1)

\* every character of s[i..j] is one of the set cs
RECURSIVE AllIn(_, _, _, _)
AllIn(s, i, j, cs) ==
  IF i > j THEN TRUE
  ELSE SubSeq(s, i, i) \in cs /\ AllIn(s, i + 1, j, cs)

Ch(s, i) == IF i >= 1 /\ i <= Len(s) THEN SubSeq(s, i, i) ELSE ""

\* the n characters of s from i on, fewer at the end of s
Sub(s, i, n) == SubSeq(s, i, IF i + n - 1 <= Len(s) THEN i + n - 1 ELSE Len(s))

Digits == {"0", "1", "2", "3", "4", "5", "6", "7", "8", "9"}

\* the value of a decimal digit
DigitValue(c) == IndexOf("0123456789", c, 1) - 1

\* the value of a hexadecimal digit of either case, or -1
HexValue(c) ==
  IF IndexOf("0123456789abcdef", c, 1) <= 16
    THEN IndexOf("0123456789abcdef", c, 1) - 1
  ELSE IF IndexOf("0123456789ABCDEF", c, 1) <= 16
    THEN IndexOf("0123456789ABCDEF", c, 1) - 1
  ELSE -1

\* the characters of the code units 20 to 7e, in order ("?" holds the place
\* of the backslash, 5c, and of the backquote, 60)
Ascii ==
  " !\"#$%&'()*+,-./0123456789:;<=>?@ABCDEFGHIJKLMNOPQRSTUVWXYZ[?]^_"
  \o "?abcdefghijklmnopqrstuvwxyz{|}~"

\* the text of the code unit n
CodeUnit(n) ==
  CASE n = 9 -> "\t"
    [] n = 10 -> "\n"
    [] n = 12 -> "\f"
    [] n = 13 -> "\r"
    [] n >= 32 /\ n <= 126 /\ n # 92 /\ n # 96 -> Ch(Ascii, n - 31)
    [] OTHER -> "\\u" \o Ch("0123456789abcdef", (n \div 4096) + 1)
                      \o Ch("0123456789abcdef", ((n \div 256) % 16) + 1)
                      \o Ch("0123456789abcdef", ((n \div 16) % 16) + 1)
                      \o Ch("0123456789abcdef", (n % 16) + 1)

\* the code unit of the group \uxxxx whose hexadecimal digits have the
\* values h, or -1
UnitOf(h) ==
  IF \E j \in 1 .. 4 : h[j] < 0 THEN -1
  ELSE 4096 * h[1] + 256 * h[2] + 16 * h[3] + h[4]

\* the code unit at i of a string, where a backslash is: its group is
\* \uxxxx, or the value is -1
UnitAt(s, i) ==
  IF Ch(s, i + 1) # "u" THEN -1
  ELSE UnitOf([j \in 1 .. 4 |-> HexValue(Ch(s, i + 1 + j))])

-----------------------------------------------------------------------------
(* Numbers.  A number is an IEEE 754 double; its literal denotes the double *)
(* nearest to the decimal value, ties to even.                              *)

\* the position after the run of digits that starts at i
RECURSIVE SkipDigits(_, _)
SkipDigits(s, i) == IF Ch(s, i) \in Digits THEN SkipDigits(s, i + 1) ELSE i

\* The parts of a number literal,
\* -? (0 | [1-9][0-9]*) (. [0-9]+)? ([eE] [+-]? [0-9]+)?
\* a: the integer part, b: after it, c: after the fraction, x: the exponent's
\* digits, d: after the literal
PartsX(s, a, b, c, x) ==
  [a |-> a, b |-> b, c |-> c, x |-> x,
   d |-> IF x > c THEN SkipDigits(s, x) ELSE c]

PartsC(s, a, b, c) ==
  PartsX(s, a, b, c,
         IF Ch(s, c) \in {"e", "E"}
         THEN (IF Ch(s, c + 1) \in {"+", "-"} THEN c + 2 ELSE c + 1)
         ELSE c)

PartsB(s, a, b) ==
  PartsC(s, a, b, IF Ch(s, b) = "." THEN SkipDigits(s, b + 1) ELSE b)

PartsA(s, a) ==
  PartsB(s, a, IF Ch(s, a) = "0" THEN a + 1 ELSE SkipDigits(s, a))

\* the parts of the number literal that starts at i
NumberParts(s, i) == PartsA(s, IF Ch(s, i) = "-" THEN i + 1 ELSE i)

\* the natural number a run of digits denotes, from 100000000 on any larger
RECURSIVE Natural(_, _, _)
Natural(s, i, acc) ==
  IF i > Len(s) THEN acc
  ELSE Natural(s, i + 1,
               IF acc >= 100000000 THEN acc ELSE acc * 10 + DigitValue(Ch(s, i)))

\* the position of the first character of s at or after i that is not "0"
RECURSIVE SkipZeros(_, _)
SkipZeros(s, i) == IF Ch(s, i) = "0" THEN SkipZeros(s, i + 1) ELSE i

\* the position of the last character of s at or before i that is not "0"
RECURSIVE LastNonZero(_, _)
LastNonZero(s, i) == IF Ch(s, i) = "0" THEN LastNonZero(s, i - 1) ELSE i

\* the exponent of the literal of parts p
Exponent(lit, p) ==
  IF p.x = p.c THEN 0
  ELSE IF Ch(lit, p.c + 1) = "-" THEN 0 - Natural(SubSeq(lit, p.x, p.d - 1), 1, 0)
  ELSE Natural(SubSeq(lit, p.x, p.d - 1), 1, 0)

\* 0.all * 10^e without the zeros at both ends of all; first is the position
\* of the first digit of all that is not 0
Normal(neg, all, first, e) ==
  [neg |-> neg,
   digits |-> SubSeq(all, first, LastNonZero(all, Len(all))),
   n |-> IF first > Len(all) THEN 0 ELSE e - (first - 1)]

\* the value of the digits all with `point` of them before the point
Scaled(neg, all, point, exp) == Normal(neg, all, SkipZeros(all, 1), point + exp)

DecimalOf(lit, p) ==
  Scaled(Ch(lit, 1) = "-",
         SubSeq(lit, p.a, p.b - 1)
           \o (IF Ch(lit, p.b) = "." THEN SubSeq(lit, p.b + 1, p.c - 1) ELSE ""),
         p.b - p.a, Exponent(lit, p))

\* the decimal value of a literal: (-1)^neg * 0.digits * 10^n, where digits
\* neither starts nor ends with 0 and is empty for zero
Decimal(lit) == DecimalOf(lit, NumberParts(lit, 1))

\* the order of 0.a and 0.b for digit strings that do not end with 0:
\* -1, 0 or 1
RECURSIVE Compare(_, _, _)
Compare(a, b, i) ==
  IF i > Len(a) /\ i > Len(b) THEN 0
  ELSE IF i > Len(a) THEN -1
  ELSE IF i > Len(b) THEN 1
  ELSE IF DigitValue(Ch(a, i)) < DigitValue(Ch(b, i)) THEN -1
  ELSE IF DigitValue(Ch(a, i)) > DigitValue(Ch(b, i)) THEN 1
  ELSE Compare(a, b, i + 1)

\* 2^-1075 = 0.HalfMinValue * 10^-323: half the least positive double; a
\* value up to it rounds to zero
HalfMinValue ==
  "2470328229206232720882843964341106861825299013071623822127928412"
  \o "5033775363510437593264991818081799618989828234772285886546332835"
  \o "5177969898199387398005390939063150356595155702263922908583924491"
  \o "0518443593180284993653615250031937045767824921936562366986365848"
  \o "0757001585769269903706311928279558551332927834338409351978015531"
  \o "2465972635795746227664652728272200563740064854999770965994704540"
  \o "2082816622623785739345073633900796776193057750674017632467360096"
  \o "8951340535537458516661134223766678604162159680461914467291840300"
  \o "5300575308490487653917113865916462395249126236538818796362393732"
  \o "8042389101867234849766823508986338858792562830275599565752445550"
  \o "7255189313690836254779186948667994968324049705821028513185451396"
  \o "213837722826145437693412532098591327667236328125"

\* 2^1024 - 2^970 = 0.OverflowValue * 10^309: half way from the greatest
\* finite double to 2^1024; a value from it on rounds to Infinity
OverflowValue ==
  "1797693134862315807937289714053034150799341327100378269361737789"
  \o "8044496829276475094664901797758720709633028641669288791094655554"
  \o "7851940402630657488671505820681908902000708383676273854845817711"
  \o "5317644757302700698555713669596228429148198608349364752927190741"
  \o "68444365510704342711559699508093042880177904174497792"

\* the decimal value d rounds to zero
RoundsToZero(d) ==
  \/ d.digits = ""
  \/ d.n < -323
  \/ d.n = -323 /\ Compare(d.digits, HalfMinValue, 1) <= 0

\* the decimal value d rounds to an infinity
RoundsToInfinity(d) ==
  /\ d.digits # ""
  /\ \/ d.n > 309
     \/ d.n = 309 /\ Compare(d.digits, OverflowValue, 1) >= 0

\* the literal denotes +0 or -0
IsZero(lit) == RoundsToZero(Decimal(lit))

\* the literal denotes Infinity or -Infinity
IsInfinite(lit) == RoundsToInfinity(Decimal(lit))

\* a string of m zeros
RECURSIVE Zeros(_)
Zeros(m) == IF m <= 0 THEN "" ELSE "0" \o Zeros(m - 1)

\* A natural number of any size is the sequence of its digits to the base
\* 1000, the least first, with no 0 at the top; << >> is 0.  The operators
\* over the digits split their range in halves.

RECURSIVE TopIn(_, _, _)

TopOr(a, lo, mid, t) == IF t # 0 THEN t ELSE TopIn(a, lo, mid)

\* the greatest position of lo .. hi where a is not 0, or 0
TopIn(a, lo, hi) ==
  IF lo > hi THEN 0
  ELSE IF lo = hi THEN (IF a[lo] # 0 THEN lo ELSE 0)
  ELSE TopOr(a, lo, (lo + hi) \div 2, TopIn(a, ((lo + hi) \div 2) + 1, hi))

\* a without the zeros at its top
Trim(a) == SubSeq(a, 1, TopIn(a, 1, Len(a)))

RECURSIVE CarryRange(_, _, _, _)

CarryDigit(v) == [digits |-> << v % 1000 >>, c |-> v \div 1000]

CarryAppend(left, right) ==
  [digits |-> left.digits \o right.digits, c |-> right.c]

CarryJoin(raw, mid, hi, left) ==
  CarryAppend(left, CarryRange(raw, mid + 1, hi, left.c))

\* the digits lo .. hi of the number whose i-th digit is raw[i], a natural
\* below 2^30, and the carry out of them; c is the carry into lo
CarryRange(raw, lo, hi, c) ==
  IF lo = hi THEN CarryDigit(raw[lo] + c)
  ELSE CarryJoin(raw, (lo + hi) \div 2, hi,
                 CarryRange(raw, lo, (lo + hi) \div 2, c))

CarryOut(r) ==
  Trim(r.digits \o << r.c % 1000, (r.c \div 1000) % 1000, r.c \div 1000000 >>)

\* the number whose i-th digit is raw[i], for i in 1 .. n
Carry(raw, n) == IF n <= 0 THEN << >> ELSE CarryOut(CarryRange(raw, 1, n, 0))

\* the number of a string of decimal digits
BigOf(s) ==
  Trim([i \in 1 .. (Len(s) + 2) \div 3 |->
          Natural(SubSeq(s, IF Len(s) > 3 * i THEN Len(s) - 3 * i + 1 ELSE 1,
                         Len(s) - 3 * (i - 1)), 1, 0)])

DigitAt(a, i) == IF i <= Len(a) THEN a[i] ELSE 0

BigAdd(a, b) ==
  Carry([i \in 1 .. (IF Len(a) > Len(b) THEN Len(a) ELSE Len(b)) |->
           DigitAt(a, i) + DigitAt(b, i)],
        IF Len(a) > Len(b) THEN Len(a) ELSE Len(b))

\* a * k for a natural k below 1000000
MulSmall(a, k) == Carry([i \in 1 .. Len(a) |-> a[i] * k], Len(a))

\* the sum of a[j] * b[i + 1 - j] for j in lo .. hi
RECURSIVE Dot(_, _, _, _, _)
Dot(a, b, i, lo, hi) ==
  IF lo > hi THEN 0
  ELSE IF lo = hi THEN a[lo] * b[i + 1 - lo]
  ELSE Dot(a, b, i, lo, (lo + hi) \div 2)
       + Dot(a, b, i, ((lo + hi) \div 2) + 1, hi)

BigMul(a, b) ==
  Carry([i \in 1 .. Len(a) + Len(b) - 1 |->
           Dot(a, b, i, IF i > Len(b) THEN i + 1 - Len(b) ELSE 1,
               IF i < Len(a) THEN i ELSE Len(a))],
        IF Len(a) = 0 \/ Len(b) = 0 THEN 0 ELSE Len(a) + Len(b) - 1)

RECURSIVE CompareIn(_, _, _, _)

CompareOr(a, b, lo, mid, c) == IF c # 0 THEN c ELSE CompareIn(a, b, lo, mid)

\* the order of the digits lo .. hi of a and b
CompareIn(a, b, lo, hi) ==
  IF lo > hi THEN 0
  ELSE IF lo = hi
    THEN (IF a[lo] < b[lo] THEN -1 ELSE IF a[lo] > b[lo] THEN 1 ELSE 0)
  ELSE CompareOr(a, b, lo, (lo + hi) \div 2,
                 CompareIn(a, b, ((lo + hi) \div 2) + 1, hi))

\* the order of a and b: -1, 0 or 1
BigCompare(a, b) ==
  IF Len(a) < Len(b) THEN -1
  ELSE IF Len(a) > Len(b) THEN 1
  ELSE CompareIn(a, b, 1, Len(a))

\* a - b for a >= b: a plus the complement of b, less the carry out
BigSub(a, b) ==
  IF Len(a) = 0 THEN << >>
  ELSE Trim(CarryRange([i \in 1 .. Len(a) |-> a[i] + 999 - DigitAt(b, i)],
                       1, Len(a), 1).digits)

\* 10^k
Pow10(k) ==
  [i \in 1 .. (k \div 3) + 1 |->
     IF i <= k \div 3 THEN 0
     ELSE IF k % 3 = 0 THEN 1
     ELSE IF k % 3 = 1 THEN 10
     ELSE 100]

Square(a) == IF Len(a) = 0 THEN << >> ELSE BigMul(a, a)

\* 2^k
RECURSIVE Pow2(_)
Pow2(k) ==
  IF k = 0 THEN << 1 >>
  ELSE IF k % 2 = 0 THEN Square(Pow2(k \div 2))
  ELSE MulSmall(Square(Pow2(k \div 2)), 2)

\* k, or 0 for a negative k: the power that stays on this side of a ratio
Up(k) == IF k > 0 THEN k ELSE 0

\* The positive decimal value d is Numerator(d) / Denominator(d)
Numerator(d) == BigMul(BigOf(d.digits), Pow10(Up(d.n - Len(d.digits))))

Denominator(d) == Pow10(Up(Len(d.digits) - d.n))

\* the integer part of the binary logarithm of N / D, which is t or more
RECURSIVE FloorLog2(_, _, _)
FloorLog2(N, D, t) ==
  IF BigCompare(BigMul(N, Pow2(Up(0 - (t + 1)))), BigMul(D, Pow2(Up(t + 1)))) >= 0
  THEN FloorLog2(N, D, t + 1)
  ELSE t

\* the exponent of the last bit of the 53 bits of a double whose first bit
\* has the exponent t: -1074 at the least (the subnormal doubles)
LastBit(t) == IF t - 52 < -1074 THEN -1074 ELSE t - 52

\* the exponent of the double nearest N / D, a value of [10^(n-1), 10^n):
\* log2(10) = 3.3219..., and the search starts below the logarithm
BinaryExponent(N, D, n) ==
  LastBit(FloorLog2(N, D, (((n + 400) * 33219) \div 10000) - 1333))

\* One step of the division by B: st.m is the bits of the quotient found
\* and st.rest what is left of the dividend; part is B times the bit
TryBit(st, bit, part) ==
  IF BigCompare(part, st.rest) <= 0
  THEN [m |-> BigAdd(st.m, bit), rest |-> BigSub(st.rest, part)]
  ELSE st

\* the bits hi down to lo of the quotient; nothing left, no more bits
RECURSIVE Bits(_, _, _, _)
Bits(B, hi, lo, st) ==
  IF Len(st.rest) = 0 THEN st
  ELSE IF hi = lo THEN TryBit(st, Pow2(hi), BigMul(B, Pow2(hi)))
  ELSE Bits(B, (hi + lo) \div 2, lo, Bits(B, hi, ((hi + lo) \div 2) + 1, st))

IsOdd(m) == Len(m) > 0 /\ m[1] % 2 = 1

\* m, the integer part of a ratio, rounded to the nearest integer, ties to
\* even: c is the order of the rest of the ratio and 1/2
Rounded(m, c) ==
  IF c > 0 \/ (c = 0 /\ IsOdd(m)) THEN BigAdd(m, << 1 >>) ELSE m

RoundedFrom(B, st) == Rounded(st.m, BigCompare(MulSmall(st.rest, 2), B))

\* A / B, below 2^53, rounded to an integer
Mantissa(A, B) == RoundedFrom(B, Bits(B, 52, 0, [m |-> << >>, rest |-> A]))

\* the double m * 2^e, m below 2^53: a mantissa rounded up to 2^53 is 2^52
\* of the next exponent
Double(m, e) ==
  IF BigCompare(m, Pow2(53)) = 0 THEN [m |-> Pow2(52), e |-> e + 1]
  ELSE [m |-> m, e |-> e]

NearestAt(N, D, e) ==
  Double(Mantissa(BigMul(N, Pow2(Up(0 - e))), BigMul(D, Pow2(Up(e)))), e)

NearestOf(N, D, n) == NearestAt(N, D, BinaryExponent(N, D, n))

\* the double nearest the positive decimal value d, ties to even; d rounds
\* neither to zero nor to Infinity
Nearest(d) == NearestOf(Numerator(d), Denominator(d), d.n)

\* the digit string s plus one in its last place
RECURSIVE Increment(_)
Increment(s) ==
  IF s = "" THEN "1"
  ELSE IF Ch(s, Len(s)) = "9" THEN Increment(SubSeq(s, 1, Len(s) - 1)) \o "0"
  ELSE SubSeq(s, 1, Len(s) - 1) \o ToString(DigitValue(Ch(s, Len(s))) + 1)

\* the greatest digit whose multiple of U is at most rem
FindDigit(U, rem) ==
  Cardinality({ k \in 1 .. 9 : BigCompare(MulSmall(U, k), rem) <= 0 })

\* the distance g from the double is within half the gap G to the next
\* double: the end of the range rounds to the double when its mantissa is
\* even
Within(g, G, even) == BigCompare(g, G) < 0 \/ (even /\ BigCompare(g, G) = 0)

\* s is the digits of the double down to the place p, rem what is left of
\* it and up what is missing to one more in the place p; low and high tell
\* that s and s plus one denote the double.  The nearer of those that do is
\* chosen, the even one of two equally near.
Pick(p, s, rem, up, low, high) ==
  IF low /\ (~high \/ BigCompare(rem, up) < 0
             \/ (BigCompare(rem, up) = 0
                 /\ DigitValue(Ch(s, Len(s))) % 2 = 0))
    THEN [done |-> TRUE, digits |-> s, p |-> p, rem |-> rem]
  ELSE IF high THEN [done |-> TRUE, digits |-> Increment(s), p |-> p, rem |-> rem]
  ELSE [done |-> FALSE, digits |-> s, p |-> p, rem |-> rem]

Candidates(GL, GH, even, p, s, rem, up) ==
  Pick(p, s, rem, up,
       SkipZeros(s, 1) <= Len(s) /\ Within(rem, GL, even),
       Within(up, GH, even))

NextRest(GL, GH, even, p, s, rem, U) ==
  Candidates(GL, GH, even, p, s, rem, BigSub(U, rem))

NextDigit(GL, GH, even, p, s, rem, U, k) ==
  NextRest(GL, GH, even, p, s \o ToString(k), BigSub(rem, MulSmall(U, k)), U)

\* the digit of the place p, whose unit is U, after the digits st.digits
NextPlace(GL, GH, even, p, st, U) ==
  NextDigit(GL, GH, even, p, st.digits, st.rem, U, FindDigit(U, st.rem))

\* The digits of a double at the places top - lo down to top - hi, or down
\* to the first place where a multiple of the place denotes the double: the
\* fewest digits that do.  Every quantity is an integer, in units of
\* 10^-c / W: st.digits is the digits above the place top - lo and st.rem
\* the rest of the double, GL and GH are half the gaps to the doubles below
\* and above.
RECURSIVE Generate(_, _, _, _, _, _, _, _, _)
Generate(W, c, GL, GH, even, top, lo, hi, st) ==
  IF st.done THEN st
  ELSE IF lo = hi
    THEN NextPlace(GL, GH, even, top - lo, st, BigMul(W, Pow10(top - lo + c)))
  ELSE Generate(W, c, GL, GH, even, top, ((lo + hi) \div 2) + 1, hi,
                Generate(W, c, GL, GH, even, top, lo, (lo + hi) \div 2, st))

\* half the gap below the double x in quarters of its last bit: the gap
\* below a power of two is half the gap above it
GapBelow(x) == IF BigCompare(x.m, Pow2(52)) = 0 /\ x.e > -1074 THEN 1 ELSE 2

\* S is the number of units in a quarter of the last bit of x.  The double
\* is below 10^(d.n + 1), and 17 digits denote any double.
ShortestIn(d, x, S) ==
  Generate(Pow2(Up(2 - x.e)), Up(20 - d.n),
           MulSmall(S, GapBelow(x)), MulSmall(S, 2), ~IsOdd(x.m),
           d.n, 0, 20,
           [done |-> FALSE, digits |-> "", p |-> d.n,
            rem |-> BigMul(MulSmall(x.m, 4), S)])

ShortestOf(d, x) ==
  ShortestIn(d, x, BigMul(Pow2(Up(x.e - 2)), Pow10(Up(20 - d.n))))

\* the decimal value of the digits r.digits down to the place r.p
Placed(neg, r) ==
  Normal(neg, r.digits, SkipZeros(r.digits, 1), Len(r.digits) + r.p)

\* The decimal value of the fewest digits that denotes the double nearest
\* d, the nearest to the double of several.  A value of at most 15
\* significant digits in the range of the normal doubles is that value itself.
Shortest(d) ==
  IF Len(d.digits) <= 15 /\ d.n >= -306 /\ d.n <= 308 THEN d
  ELSE Placed(d.neg, ShortestOf(d, Nearest(d)))

\* the digits of the decimal value d, laid out as Number::toString(10) does
Layout(d) ==
  IF Len(d.digits) <= d.n /\ d.n <= 21
    THEN d.digits \o Zeros(d.n - Len(d.digits))
  ELSE IF 0 < d.n /\ d.n <= 21
    THEN SubSeq(d.digits, 1, d.n) \o "." \o SubSeq(d.digits, d.n + 1, Len(d.digits))
  ELSE IF -6 < d.n /\ d.n <= 0 THEN "0." \o Zeros(0 - d.n) \o d.digits
  ELSE SubSeq(d.digits, 1, 1)
       \o (IF Len(d.digits) = 1 THEN ""
           ELSE "." \o SubSeq(d.digits, 2, Len(d.digits)))
       \o (IF d.n - 1 >= 0 THEN "e+" \o ToString(d.n - 1)
           ELSE "e-" \o ToString(1 - d.n))

\* Number::toString(10) of the double nearest the decimal value d, without
\* its sign
Format(d) ==
  IF RoundsToZero(d) THEN "0"
  ELSE IF RoundsToInfinity(d) THEN "Infinity"
  ELSE Layout(Shortest(d))

\* the sign goes before every number but zero
Signed(d, text) == IF d.neg /\ ~RoundsToZero(d) THEN "-" \o text ELSE text

NumberString(d) == Signed(d, Format(d))

NumberToString(lit) == NumberString(Decimal(lit))

-----
(* Conversions and property access *)

\* ToBoolean: what `!v` and `v || w` test
Truthy(v) ==
  CASE v.t = "undefined" -> FALSE
    [] v.t = "null" -> FALSE
    [] v.t = "boolean" -> v.b
    [] v.t = "number" -> ~IsZero(v.lit)
    [] v.t = "string" -> v.s # ""
    [] OTHER -> TRUE

\* v || w
Or(v, w) == IF Truthy(v) THEN v ELSE w

\* ToString: the string that `'...' + v` appends
RECURSIVE ToStr(_)
RECURSIVE Join(_, _)

\* Array.prototype.join(','): undefined and null elements are empty
Join(items, i) ==
  IF i > Len(items) THEN ""
  ELSE (IF i = 1 THEN "" ELSE ",")
       \o (IF items[i].t \in {"undefined", "null"} THEN "" ELSE ToStr(items[i]))
       \o Join(items, i + 1)

ToStr(v) ==
  CASE v.t = "string" -> v.s
    [] v.t = "number" -> NumberToString(v.lit)
    [] v.t = "undefined" -> "undefined"
    [] v.t = "null" -> "null"
    [] v.t = "boolean" -> (IF v.b THEN "true" ELSE "false")
    [] v.t = "function" -> v.source
    [] v.t = "array" -> Join(v.items, 1)
    [] v.t = "error" ->
         (IF v.name = "" THEN v.message
          ELSE IF v.message = "" THEN v.name
          ELSE v.name \o ": " \o v.message)
    [] OTHER -> "[object Object]"

\* v.k can be read: reading a property of undefined or null throws TypeError
CanRead(v) == v.t \notin {"undefined", "null"}

\* the value of the last member of `members` named k, or undefined
RECURSIVE Member(_, _, _)
Member(members, k, i) ==
  IF i = 0 THEN Undefined
  ELSE IF members[i].k = k THEN members[i].v
  ELSE Member(members, k, i - 1)

\* v.k for the property names the handler reads (success, data, _success)
GetProp(v, k) ==
  IF v.t = "object" THEN Member(v.members, k, Len(v.members)) ELSE Undefined

-----------------------------------------------------------------------------
(* JSON.parse: a recursive-descent parser of the JSON grammar over the      *)
(* characters of the body.  A parse result is [ok, v, i]: success, the      *)
(* value, and the position after it.                                        *)

Whitespace == {" ", "\t", "\n", "\r"}

Fail == [ok |-> FALSE, v |-> Undefined, i |-> 0]

Ok(v, i) == [ok |-> TRUE, v |-> v, i |-> i]

RECURSIVE SkipWs(_, _)
SkipWs(s, i) == IF Ch(s, i) \in Whitespace THEN SkipWs(s, i + 1) ELSE i

\* the \u escape of the code unit n, which ends before i
Unicode(n, i) == IF n < 0 THEN Fail ELSE Ok(CodeUnit(n), i)

\* the escape whose letter c is at i (after the backslash): its text and
\* the position after it
EscapeOf(s, i, c) ==
  CASE c = "\"" -> Ok("\"", i + 1)
    [] c = "\\" -> (IF UnitAt(s, i) = 92 THEN Ok(CodeUnit(92), i + 6) ELSE Fail)
    [] c = "/" -> Ok("/", i + 1)
    [] c = "b" -> Ok(CodeUnit(8), i + 1)
    [] c = "f" -> Ok("\f", i + 1)
    [] c = "n" -> Ok("\n", i + 1)
    [] c = "r" -> Ok("\r", i + 1)
    [] c = "t" -> Ok("\t", i + 1)
    [] c = "u" -> Unicode(UnitOf([j \in 1 .. 4 |-> HexValue(Ch(s, i + j))]), i + 5)
    [] OTHER -> Fail

Escape(s, i) == EscapeOf(s, i, Ch(s, i))

RECURSIVE ParseChars(_, _, _)

\* the string literal goes on after the escape e
AfterEscape(s, acc, e) ==
  IF ~e.ok THEN Fail ELSE ParseChars(s, e.i, acc \o e.v)

\* the code unit n of the string literal is the group at i: the backslash
\* starts an escape, a control character must be escaped, any other unit
\* stands for itself
ParseUnit(s, i, acc, n) ==
  IF n = 92 THEN AfterEscape(s, acc, Escape(s, i + 6))
  ELSE IF n < 32 THEN Fail
  ELSE ParseChars(s, i + 6, acc \o Sub(s, i, 6))

\* the character c of the string literal is at i
ParseChar(s, i, acc, c) ==
  IF c = "" \/ c \in {"\t", "\n", "\f", "\r"} THEN Fail
  ELSE IF c = "\"" THEN Ok(Str(acc), i + 1)
  ELSE IF c = "\\" THEN ParseUnit(s, i, acc, UnitAt(s, i))
  ELSE ParseChars(s, i + 1, acc \o c)

\* the string literal whose opening quote is at i - 1; acc is its text so
\* far
ParseChars(s, i, acc) == ParseChar(s, i, acc, Ch(s, i))

\* the number literal at i whose parts are p
NumberAt(s, i, p) ==
  IF p.b = p.a THEN Fail
  ELSE IF Ch(s, p.b) = "." /\ p.c = p.b + 1 THEN Fail
  ELSE IF p.x > p.c /\ p.d = p.x THEN Fail
  ELSE Ok(Num(SubSeq(s, i, p.d - 1)), p.d)

\* the number literal that starts at i
ParseNumber(s, i) == NumberAt(s, i, NumberParts(s, i))

\* the key is an array index: a canonical numeric string below 2^32 - 1
IsIndex(k) ==
  /\ k # ""
  /\ AllIn(k, 1, Len(k), Digits)
  /\ k = "0" \/ Ch(k, 1) # "0"
  /\ Len(k) < 10 \/ (Len(k) = 10 /\ Compare(k, "4294967295", 1) < 0)

\* index a is below index b
IndexLess(a, b) ==
  Len(a) < Len(b) \/ (Len(a) = Len(b) /\ Compare(a, b, 1) < 0)

\* key k goes before the member m: an index goes before every larger index
\* and every other key
Before(k, m) == IsIndex(k) /\ (IsIndex(m.k) => IndexLess(k, m.k))

\* members with m after the first n of them
Insert(members, m, n) ==
  SubSeq(members, 1, n) \o << m >> \o SubSeq(members, n + 1, Len(members))

\* members with the property k set to v: a key already there keeps its
\* place and takes the value; a new index goes in ascending order ahead of
\* the other keys, any other new key goes last
Put(members, k, v) ==
  IF \E j \in DOMAIN members : members[j].k = k
  THEN [j \in DOMAIN members |->
          IF members[j].k = k THEN [k |-> k, v |-> v] ELSE members[j]]
  ELSE Insert(members, [k |-> k, v |-> v],
              Cardinality({ j \in DOMAIN members : ~Before(k, members[j]) }))

RECURSIVE ParseValue(_, _)
RECURSIVE ParseMembers(_, _, _)
RECURSIVE ParseElements(_, _, _)

\* the members of an object after `{` or `,`: string : value, then , or }
ParseMembers(s, i, acc) ==
  LET j == SkipWs(s, i) IN
  IF Ch(s, j) # "\"" THEN Fail
  ELSE LET key == ParseChars(s, j + 1, "") IN
    IF ~key.ok THEN Fail
    ELSE LET c == SkipWs(s, key.i) IN
      IF Ch(s, c) # ":" THEN Fail
      ELSE LET val == ParseValue(s, c + 1) IN
        IF ~val.ok THEN Fail
        ELSE LET n == SkipWs(s, val.i)
                 more == Put(acc, key.v.s, val.v)
             IN IF Ch(s, n) = "," THEN ParseMembers(s, n + 1, more)
                ELSE IF Ch(s, n) = "}" THEN Ok(Obj(more), n + 1)
                ELSE Fail

\* the elements of an array after `[` or `,`: value, then , or ]
ParseElements(s, i, acc) ==
  LET val == ParseValue(s, i) IN
  IF ~val.ok THEN Fail
  ELSE LET n == SkipWs(s, val.i)
           more == Append(acc, val.v)
       IN IF Ch(s, n) = "," THEN ParseElements(s, n + 1, more)
          ELSE IF Ch(s, n) = "]" THEN Ok(Arr(more), n + 1)
          ELSE Fail

ParseValue(s, i) ==
  LET j == SkipWs(s, i)
      c == Ch(s, j)
  IN CASE c = "{" ->
            (LET n == SkipWs(s, j + 1) IN
             IF Ch(s, n) = "}" THEN Ok(Obj(<<>>), n + 1)
             ELSE ParseMembers(s, j + 1, <<>>))
       [] c = "[" ->
            (LET n == SkipWs(s, j + 1) IN
             IF Ch(s, n) = "]" THEN Ok(Arr(<<>>), n + 1)
             ELSE ParseElements(s, j + 1, <<>>))
       [] c = "\"" -> ParseChars(s, j + 1, "")
       [] c = "t" ->
            IF Sub(s, j, 4) = "true" THEN Ok(Bool(TRUE), j + 4) ELSE Fail
       [] c = "f" ->
            IF Sub(s, j, 5) = "false" THEN Ok(Bool(FALSE), j + 5) ELSE Fail
       [] c = "n" ->
            IF Sub(s, j, 4) = "null" THEN Ok(Null, j + 4) ELSE Fail
       [] c \in Digits \cup {"-"} -> ParseNumber(s, j)
       [] OTHER -> Fail

\* JSON.parse(text): one value, surrounded by optional whitespace
JSONparse(text) ==
  LET r == ParseValue(text, 1) IN
  IF r.ok /\ SkipWs(text, r.i) = Len(text) + 1 THEN [ok |-> TRUE, v |-> r.v]
  ELSE [ok |-> FALSE, v |-> Undefined]

-----------------------------------------------------------------------------
(* The module's constants and private helpers *)

ENDPOINT == "http://api.captainteemo.com"

PLATFORMS ==
  << [short |-> "na", full |-> "North_America"],
     [short |-> "br", full |-> "Brasil"],
     [short |-> "ru", full |-> "Russia"],
     [short |-> "euw", full |-> "Europe_West"],
     [short |-> "eun", full |-> "Europe_East"],
     [short |-> "tr", full |-> "Turkey"],
     [short |-> "las", full |-> "Latin_America_South"],
     [short |-> "lan", full |-> "Latin_America_North"] >>

\* lodash type predicates
isFunction(v) == v.t = "function"

isNull(v) == v.t = "null"

isString(v) == v.t = "string"

isUndefined(v) == v.t = "undefined"

\* a platform entry as a JavaScript object
Entry(e) ==
  Obj(<< [k |-> "short", v |-> Str(e.short)], [k |-> "full", v |-> Str(e.full)] >>)

\* find(collection, {key: value}): the first entry whose property `key` is
\* strictly equal to `value`, else undefined
RECURSIVE find(_, _, _, _)
find(collection, key, value, i) ==
  IF i > Len(collection) THEN Undefined
  ELSE IF Str(collection[i][key]) = value THEN Entry(collection[i])
  ELSE find(collection, key, value, i + 1)

brandError(value) == Err("Error", "node-resteemo - " \o value)

\* the full name stays in place of its short code
normalizePlatformKeepFull(platform) ==
  LET matchFromShortPlatform == find(PLATFORMS, "short", platform, 1)
      matchFromFullPlatform == find(PLATFORMS, "full", platform, 1)
  IN IF ~isUndefined(matchFromShortPlatform) THEN platform
     ELSE IF ~isUndefined(matchFromFullPlatform) THEN platform
     ELSE Null

\* an unknown platform is passed on instead of null
normalizePlatformPassUnknown(platform) ==
  LET matchFromShortPlatform == find(PLATFORMS, "short", platform, 1)
      matchFromFullPlatform == find(PLATFORMS, "full", platform, 1)
  IN IF ~isUndefined(matchFromShortPlatform) THEN platform
     ELSE IF ~isUndefined(matchFromFullPlatform)
          THEN GetProp(matchFromFullPlatform, "short")
     ELSE platform

normalizePlatform(platform) ==
  LET matchFromShortPlatform == find(PLATFORMS, "short", platform, 1)
      matchFromFullPlatform == find(PLATFORMS, "full", platform, 1)
  IN IF ~isUndefined(matchFromShortPlatform) THEN platform
     ELSE IF ~isUndefined(matchFromFullPlatform)
          THEN GetProp(matchFromFullPlatform, "short")
     ELSE Null

-----------------------------------------------------------------------------
(* What a piece of synchronous code does before it returns: it throws, it   *)
(* invokes the callback, or it hands a request to the HTTP layer.           *)

NoHeaders == [Accept |-> "", UserAgent |-> Undefined]

Throw(e) ==
  [kind |-> "throw", error |-> e, response |-> Undefined,
   method |-> "", uri |-> "", headers |-> NoHeaders]

Callback(e, r) ==
  [kind |-> "callback", error |-> e, response |-> r,
   method |-> "", uri |-> "", headers |-> NoHeaders]

Request(method, uri, headers) ==
  [kind |-> "request", error |-> Null, response |-> Undefined,
   method |-> method, uri |-> uri, headers |-> headers]

\* callback(e, r): calling a value that is no function throws TypeError
Apply(callback, e, r) ==
  IF isFunction(callback) THEN Callback(e, r)
  ELSE Throw(Err("TypeError", "callback is not a function"))

-----------------------------------------------------------------------------
(* State *)

VARIABLES
  teemo,          \* the facades the factory has returned, numbered from 1
  refererString,  \* per facade: the factory's argument its closure captured
  factory,        \* the latest factory call: [called, arg, error, returned]
  calls,          \* the public operations called, in order
  thrown,         \* what calls threw to their caller: [call, error]
  requests,       \* per call that dispatched: the request and its exchange
  response,       \* the `response` variable of each 'response' listener
  cbLog,          \* the callback invocations: [call, error, response, inCall]
  uncaught        \* exceptions thrown inside event listeners: [call, error]

vars ==
  << teemo, refererString, factory, calls, thrown, requests, response,
     cbLog, uncaught >>

Init ==
  /\ teemo = {}
  /\ refererString = << >>
  /\ factory = [called |-> FALSE, arg |-> Undefined, error |-> Null, returned |-> 0]
  /\ calls = << >>
  /\ thrown = << >>
  /\ requests = << >>
  /\ response = << >>
  /\ cbLog = << >>
  /\ uncaught = << >>

-----------------------------------------------------------------------------
(* The factory and the request construction.  Every facade is a closure   *)
(* over its own refererString: `self` names the facade whose function runs. *)

\* the User-Agent is a fixed library name instead of the referer string
prepareRequestFixedAgent(self, method, path, callback) ==
  IF ~isFunction(callback) THEN Throw(brandError("missing callback"))
  ELSE Request(method, ENDPOINT \o path,
               [Accept |-> "application/json", UserAgent |-> Str("node-resteemo")])

prepareRequest(self, method, path, callback) ==
  IF ~isFunction(callback) THEN Throw(brandError("missing callback"))
  ELSE Request(method, ENDPOINT \o path,
               [Accept |-> "application/json", UserAgent |-> refererString[self]])

get(self, path, callback) == prepareRequest(self, "GET", path, callback)

\* the options object of a public operation; an absent key is undefined
Options(platform, summoner, tag, guid, path, season) ==
  [platform |-> platform, summoner |-> summoner, tag |-> tag, guid |-> guid,
   path |-> path, season |-> season]

constructPath(self, options, callback) ==
  LET shortPlatform == normalizePlatform(options.platform) IN
  IF isNull(shortPlatform) THEN Apply(callback, brandError("invalid platform"), Undefined)
  ELSE
    LET path == IF isUndefined(options.path) THEN "" ELSE "/" \o ToStr(options.path) IN
    IF Truthy(options.summoner) THEN
      get(self, "/player/" \o ToStr(shortPlatform) \o "/" \o ToStr(options.summoner)
                  \o path \o ToStr(Or(options.season, Str(""))), callback)
    ELSE IF Truthy(Or(options.tag, options.guid)) THEN
      get(self, "/team/" \o ToStr(shortPlatform) \o path \o "/"
                  \o ToStr(Or(options.tag, options.guid))
                  \o (IF Truthy(options.guid) THEN "/leagues" ELSE ""), callback)
    ELSE
      get(self, "/service-state/" \o ToStr(shortPlatform) \o path, callback)

\* The message of the factory's error: refererString between two backquotes
\* (code unit 60), then " not defined".
MissingConfigMessage ==
  CodeUnit(96) \o "refererString" \o CodeUnit(96) \o " not defined"

\* module.exports(refererString): throws, or returns a new facade
module_exports(arg) ==
  /\ uncaught = << >>
  /\ IF ~isString(arg)
     THEN /\ factory' = [called |-> TRUE, arg |-> arg,
                         error |-> brandError(MissingConfigMessage), returned |-> 0]
          /\ UNCHANGED << teemo, refererString >>
     ELSE /\ factory' = [called |-> TRUE, arg |-> arg, error |-> Null,
                         returned |-> Len(refererString) + 1]
          /\ teemo' = teemo \cup { Len(refererString) + 1 }
          /\ refererString' = Append(refererString, arg)
  /\ UNCHANGED << calls, thrown, requests, response, cbLog, uncaught >>

\* the listeners responseHandler registers on the request
responseHandler == {"response"}

\* One call of a public operation, from entry to return: `done` is what
\* constructPath did.  The callback, when invoked here, runs inside the call.
Invoke(self, op, platform, id, season, callback, done) ==
  LET c == Len(calls) + 1 IN
  /\ self \in teemo
  /\ uncaught = << >>
  /\ calls' = Append(calls, [facade |-> self, op |-> op, platform |-> platform,
                             id |-> id, season |-> season, callback |-> callback])
  /\ thrown' = IF done.kind = "throw"
               THEN Append(thrown, [call |-> c, error |-> done.error])
               ELSE thrown
  /\ cbLog' = IF done.kind = "callback"
              THEN Append(cbLog, [call |-> c, error |-> done.error,
                                  response |-> done.response, inCall |-> TRUE])
              ELSE cbLog
  /\ requests' = IF done.kind = "request"
                 THEN requests @@ (c :> [method |-> done.method, uri |-> done.uri,
                                         headers |-> done.headers,
                                         listeners |-> responseHandler,
                                         state |-> "sent", arrived |-> << >>,
                                         failure |-> Null])
                 ELSE requests
  /\ UNCHANGED << teemo, refererString, factory, response, uncaught >>

-----------------------------------------------------------------------------
(* The public operations *)

teemo_player(self, platform, summoner, callback) ==
  Invoke(self, "player", platform, summoner, Undefined, callback,
    constructPath(self, Options(platform, summoner, Undefined, Undefined,
                          Undefined, Undefined), callback))

teemo_player_ingame(self, platform, summoner, callback) ==
  Invoke(self, "player.ingame", platform, summoner, Undefined, callback,
    constructPath(self, Options(platform, summoner, Undefined, Undefined,
                          Str("ingame"), Undefined), callback))

teemo_player_recentGames(self, platform, summoner, callback) ==
  Invoke(self, "player.recentGames", platform, summoner, Undefined, callback,
    constructPath(self, Options(platform, summoner, Undefined, Undefined,
                          Str("recent_games"), Undefined), callback))

teemo_player_influencePoints(self, platform, summoner, callback) ==
  Invoke(self, "player.influencePoints", platform, summoner, Undefined, callback,
    constructPath(self, Options(platform, summoner, Undefined, Undefined,
                          Str("influence_points"), Undefined), callback))

teemo_player_runes(self, platform, summoner, callback) ==
  Invoke(self, "player.runes", platform, summoner, Undefined, callback,
    constructPath(self, Options(platform, summoner, Undefined, Undefined,
                          Str("runes"), Undefined), callback))

teemo_player_mastery(self, platform, summoner, callback) ==
  Invoke(self, "player.mastery", platform, summoner, Undefined, callback,
    constructPath(self, Options(platform, summoner, Undefined, Undefined,
                          Str("mastery"), Undefined), callback))

teemo_player_leagues(self, platform, summoner, callback) ==
  Invoke(self, "player.leagues", platform, summoner, Undefined, callback,
    constructPath(self, Options(platform, summoner, Undefined, Undefined,
                          Str("leagues"), Undefined), callback))

teemo_player_honor(self, platform, summoner, callback) ==
  Invoke(self, "player.honor", platform, summoner, Undefined, callback,
    constructPath(self, Options(platform, summoner, Undefined, Undefined,
                          Str("honor"), Undefined), callback))

teemo_player_rankedStats(self, platform, summoner, season, callback) ==
  Invoke(self, "player.rankedStats", platform, summoner, season, callback,
    constructPath(self, Options(platform, summoner, Undefined, Undefined,
                          Str("ranked_stats/season/"), season), callback))

teemo_player_teams(self, platform, summoner, callback) ==
  Invoke(self, "player.teams", platform, summoner, Undefined, callback,
    constructPath(self, Options(platform, summoner, Undefined, Undefined,
                          Str("teams"), Undefined), callback))

teemo_team(self, platform, tag, callback) ==
  Invoke(self, "team", platform, tag, Undefined, callback,
    constructPath(self, Options(platform, Undefined, tag, Undefined,
                          Str("tag"), Undefined), callback))

teemo_team_leagues(self, platform, guid, callback) ==
  Invoke(self, "team.leagues", platform, guid, Undefined, callback,
    constructPath(self, Options(platform, Undefined, Undefined, guid,
                          Str("guid"), Undefined), callback))

teemo_freeWeek(self, platform, callback) ==
  Invoke(self, "freeWeek", platform, Undefined, Undefined, callback,
    constructPath(self, Options(platform, Undefined, Undefined, Undefined,
                          Str("free-week"), Undefined), callback))

-----------------------------------------------------------------------------
(* The response handler and the events of the HTTP layer *)

MaxChunks == 2

\* one `response` variable at module level, shared by every request
responseScopeShared(c) == 0

\* where the `response` variable of a 'response' listener lives: it is
\* declared inside the listener, one per request
responseScope(c) == c

\* the 'end' listener after JSON.parse: `parsed` is the result of the parse
\* (ok is FALSE when JSON.parse threw); check both success flags
onEnd(parsed, callback) ==
  IF ~parsed.ok THEN Apply(callback, brandError("invalid json response"), Undefined)
  ELSE IF ~CanRead(parsed.v)
    THEN Throw(Err("TypeError", "cannot read property 'success'"))
  ELSE IF ~Truthy(GetProp(parsed.v, "success"))
    THEN Apply(callback, brandError("api failed"), Undefined)
  ELSE IF ~CanRead(GetProp(parsed.v, "data"))
    THEN Throw(Err("TypeError", "cannot read property '_success'"))
  ELSE IF /\ ~isUndefined(GetProp(GetProp(parsed.v, "data"), "_success"))
          /\ ~Truthy(GetProp(GetProp(parsed.v, "data"), "_success"))
    THEN Apply(callback, brandError("api failed at second success check"), Undefined)
  ELSE Apply(callback, Null, parsed.v)

\* req emits 'response': the listener starts an empty body
on_response(c) ==
  /\ uncaught = << >>
  /\ c \in DOMAIN requests
  /\ requests[c].state = "sent"
  /\ "response" \in requests[c].listeners
  /\ response' = [k \in DOMAIN response \cup {responseScope(c)} |->
                    IF k = responseScope(c) THEN Str("") ELSE response[k]]
  /\ requests' = [requests EXCEPT ![c].state = "open"]
  /\ UNCHANGED << teemo, refererString, factory, calls, thrown, cbLog, uncaught >>

\* res emits 'data': response += chunk
on_data(c, chunk) ==
  /\ uncaught = << >>
  /\ c \in DOMAIN requests
  /\ requests[c].state = "open"
  /\ Len(requests[c].arrived) < MaxChunks
  /\ response' = [response EXCEPT ![responseScope(c)] = Str(ToStr(@) \o chunk)]
  /\ requests' = [requests EXCEPT ![c].arrived = Append(@, chunk)]
  /\ UNCHANGED << teemo, refererString, factory, calls, thrown, cbLog, uncaught >>

\* The 'end' listener of request c, given what JSON.parse made of the body:
\* `response` becomes the parsed value, and the callback is invoked or the
\* listener throws.
End(c, parsed) ==
  /\ uncaught = << >>
  /\ c \in DOMAIN requests
  /\ requests[c].state = "open"
  /\ response' = [response EXCEPT ![responseScope(c)] =
                    IF parsed.ok THEN parsed.v ELSE @]
  /\ requests' = [requests EXCEPT ![c].state = "ended"]
  /\ cbLog' = IF onEnd(parsed, calls[c].callback).kind = "callback"
              THEN Append(cbLog, [call |-> c,
                                  error |-> onEnd(parsed, calls[c].callback).error,
                                  response |-> onEnd(parsed, calls[c].callback).response,
                                  inCall |-> FALSE])
              ELSE cbLog
  /\ uncaught' = IF onEnd(parsed, calls[c].callback).kind = "throw"
                 THEN Append(uncaught,
                             [call |-> c, error |-> onEnd(parsed, calls[c].callback).error])
                 ELSE uncaught
  /\ UNCHANGED << teemo, refererString, factory, calls, thrown >>

\* res emits 'end': the body is complete
on_end(c) ==
  /\ c \in DOMAIN requests
  /\ responseScope(c) \in DOMAIN response
  /\ End(c, JSONparse(ToStr(response[responseScope(c)])))

\* req emits 'error': a transport failure, before any response or while the
\* body arrives (no 'end' follows).  An 'error' event with no listener is
\* thrown by the emitter.
emit_error(c, e) ==
  /\ uncaught = << >>
  /\ c \in DOMAIN requests
  /\ requests[c].state \in { "sent", "open" }
  /\ requests' = [requests EXCEPT ![c].state = "errored", ![c].failure = e]
  /\ uncaught' = IF "error" \in requests[c].listeners THEN uncaught
                 ELSE Append(uncaught, [call |-> c, error |-> e])
  /\ UNCHANGED << teemo, refererString, factory, calls, thrown, response, cbLog >>

-----------------------------------------------------------------------------
(* Inputs and specifications *)

MaxCalls == 1

MaxClients == 2

MaxConcurrent == 2

MaxConcurrentClients == 1

ShortCodes == { Str(PLATFORMS[i].short) : i \in DOMAIN PLATFORMS }

FullNames == { Str(PLATFORMS[i].full) : i \in DOMAIN PLATFORMS }

UnknownPlatforms == { Str("NA"), Str(""), Undefined }

ConfigArgs == { Undefined, Num("5"), Str(""), Str("contact@example.com") }

\* a callback function
Cb == Fn("function (error, response) {}")

CallbackArgs == { Cb, Undefined, Str("cb") }

SummonerArgs == { Str(""), Str("Faker") }

TagArgs == { Str(""), Str("TSM") }

GuidArgs == { Str(""), Str("abc") }

SeasonArgs == { Num("0"), Num("3") }

TransportErrors ==
  { Err("Error", "connect ECONNREFUSED"), Err("Error", "getaddrinfo ENOTFOUND"),
    Err("Error", "aborted") }

Chunks ==
  { "{\"success\":false}",
    "{\"success\":true}",
    "{\"success\":true,\"data\":null}",
    "{\"success\":true,\"data\":{\"x\":1}}",
    "{\"success\":1,\"data\":{\"_success\":0}}",
    "{\"success\":true,\"data\":",
    "{\"_success\":true,\"x\":1}}",
    "{\"_success\":false}}",
    "null",
    "<html>" }

ChunksConcurrent ==
  { "{\"success\":true,\"data\":{\"x\":1}}", "{\"success\":false}" }

\* a call of the factory with an argument of the given set, while fewer
\* than `limit` facades have been made
Factory(limit, args) ==
  \E a \in args :
    /\ isString(a) => Len(refererString) < limit
    /\ module_exports(a)

\* a call of any public operation of any facade with arguments of the given
\* sets, while fewer than `limit` calls have been made
Operations(limit, P, S, T, G, N, C) ==
  \/ Len(calls) < limit /\ \E self \in teemo, p \in P, s \in S, cb \in C :
       teemo_player(self, p, s, cb)
  \/ Len(calls) < limit /\ \E self \in teemo, p \in P, s \in S, cb \in C :
       teemo_player_ingame(self, p, s, cb)
  \/ Len(calls) < limit /\ \E self \in teemo, p \in P, s \in S, cb \in C :
       teemo_player_recentGames(self, p, s, cb)
  \/ Len(calls) < limit /\ \E self \in teemo, p \in P, s \in S, cb \in C :
       teemo_player_influencePoints(self, p, s, cb)
  \/ Len(calls) < limit /\ \E self \in teemo, p \in P, s \in S, cb \in C :
       teemo_player_runes(self, p, s, cb)
  \/ Len(calls) < limit /\ \E self \in teemo, p \in P, s \in S, cb \in C :
       teemo_player_mastery(self, p, s, cb)
  \/ Len(calls) < limit /\ \E self \in teemo, p \in P, s \in S, cb \in C :
       teemo_player_leagues(self, p, s, cb)
  \/ Len(calls) < limit /\ \E self \in teemo, p \in P, s \in S, cb \in C :
       teemo_player_honor(self, p, s, cb)
  \/ Len(calls) < limit /\ \E self \in teemo, p \in P, s \in S, n \in N, cb \in C :
       teemo_player_rankedStats(self, p, s, n, cb)
  \/ Len(calls) < limit /\ \E self \in teemo, p \in P, s \in S, cb \in C :
       teemo_player_teams(self, p, s, cb)
  \/ Len(calls) < limit /\ \E self \in teemo, p \in P, t \in T, cb \in C :
       teemo_team(self, p, t, cb)
  \/ Len(calls) < limit /\ \E self \in teemo, p \in P, g \in G, cb \in C :
       teemo_team_leagues(self, p, g, cb)
  \/ Len(calls) < limit /\ \E self \in teemo, p \in P, cb \in C :
       teemo_freeWeek(self, p, cb)

\* the exchange of every request: a response with its chunks, and a failure
\* before or in the middle of it
Exchange(chunks, errors) ==
  \/ \E c \in DOMAIN requests : on_response(c)
  \/ \E c \in DOMAIN requests, chunk \in chunks : on_data(c, chunk)
  \/ \E c \in DOMAIN requests : on_end(c)
  \/ \E c \in DOMAIN requests, e \in errors : emit_error(c, e)

\* The whole pipeline, one call at a time.
Next ==
  \/ Factory(MaxClients, ConfigArgs)
  \/ Operations(MaxCalls, {Str("na"), Str("Europe_West"), Str("NA")}, {Str("Faker")},
                {Str("TSM")}, {Str("abc")}, {Num("3")}, {Cb})
  \/ Exchange(Chunks, TransportErrors)

Spec == Init /\ [][Next]_vars

\* The facade alone, over every platform and argument: what a call does
\* before it returns.
NextFacade ==
  \/ Factory(MaxClients, ConfigArgs)
  \/ Operations(MaxCalls, ShortCodes \cup FullNames \cup UnknownPlatforms,
                SummonerArgs, TagArgs, GuidArgs, SeasonArgs, CallbackArgs)

SpecFacade == Init /\ [][NextFacade]_vars

\* Every operation on every platform, with well-formed arguments.
NextPlatforms ==
  \/ Factory(MaxClients, {Undefined, Str("contact@example.com")})
  \/ Operations(MaxCalls, ShortCodes \cup FullNames \cup UnknownPlatforms,
                {Str("Faker")}, {Str("TSM")}, {Str("abc")}, {Num("3")}, {Cb})

SpecPlatforms == Init /\ [][NextPlatforms]_vars

\* Several clients made by the factory, and every operation of each.
NextFactory ==
  \/ Factory(MaxClients, ConfigArgs)
  \/ Operations(MaxCalls, {Str("na")}, {Str("Faker")}, {Str("TSM")}, {Str("abc")},
                {Num("3")}, {Cb})

SpecFactory == Init /\ [][NextFactory]_vars

\* Several calls in flight at once, their events interleaved.
NextConcurrent ==
  \/ Factory(MaxConcurrentClients, {Str("contact@example.com")})
  \/ Len(calls) < MaxConcurrent /\ \E self \in teemo :
       teemo_player(self, Str("na"), Str("Faker"), Cb)
  \/ Exchange(ChunksConcurrent, {Err("Error", "aborted")})

SpecConcurrent == Init /\ [][NextConcurrent]_vars

-----
(* Properties *)

CallIds == 1 .. Len(calls)

\* the callback invocations of call c
Invocations(c) == { i \in DOMAIN cbLog : cbLog[i].call = c }

\* the exceptions call c threw to its caller
Thrown(c) == { thrown[i].error : i \in { j \in DOMAIN thrown : thrown[j].call = c } }

MissingCallback == Err("Error", "node-resteemo - missing callback")

InvalidPlatform == Err("Error", "node-resteemo - invalid platform")

InvalidJSON == Err("Error", "node-resteemo - invalid json response")

ApiFailure ==
  { Err("Error", "node-resteemo - api failed"),
    Err("Error", "node-resteemo - api failed at second success check") }

MissingConfig == Err("Error", "node-resteemo - " \o MissingConfigMessage)

\* the platform argument is one of the 16 known forms
Known(p) ==
  /\ p.t = "string"
  /\ \E i \in DOMAIN PLATFORMS : p.s \in { PLATFORMS[i].short, PLATFORMS[i].full }

\* the short code of a known platform argument
ShortOf(p) ==
  PLATFORMS[CHOOSE i \in DOMAIN PLATFORMS :
              p.s \in { PLATFORMS[i].short, PLATFORMS[i].full }].short

\* C1: a call whose callback is missing or no function throws MissingCallback
\* to its caller and issues no request, whatever the platform argument.
C1_MissingCallbackThrown ==
  \A c \in CallIds :
    calls[c].callback.t # "function" =>
      /\ Thrown(c) = { MissingCallback }
      /\ c \notin DOMAIN requests

\* the exchange of call c is over: it returned without a request, or its
\* request ended in a complete response or in a transport failure
Over(c) ==
  \/ c \notin DOMAIN requests
  \/ requests[c].state \in { "ended", "errored" }

\* C2: a call made with a function callback has invoked it exactly once when
\* its exchange is over, whichever way the exchange ended.
C2_CallbackExactlyOnce ==
  \A c \in CallIds :
    (calls[c].callback.t = "function" /\ Over(c)) =>
      Cardinality(Invocations(c)) = 1

\* C3: a call with a function callback and an unknown platform hands the
\* InvalidPlatform error to the callback and issues no request.
C3_InvalidPlatformNoRequest ==
  \A c \in CallIds :
    (calls[c].callback.t = "function" /\ ~Known(calls[c].platform)) =>
      /\ c \notin DOMAIN requests
      /\ Thrown(c) = {}
      /\ Invocations(c) # {}
      /\ \A i \in Invocations(c) :
           cbLog[i].error = InvalidPlatform /\ cbLog[i].response = Undefined

C3_Witness ==
  \E c \in CallIds :
    /\ calls[c].callback.t = "function"
    /\ calls[c].platform = Str("NA")
    /\ \E i \in Invocations(c) : cbLog[i].error = InvalidPlatform

\* C4: no callback is invoked while the public operation is still running:
\* every invocation happens after the call has returned.
C4_CallbackAfterReturn == \A i \in DOMAIN cbLog : ~cbLog[i].inCall

\* the chunks of call c's response, concatenated in arrival order
RECURSIVE Concat(_)
Concat(chunks) ==
  IF chunks = << >> THEN "" ELSE Head(chunks) \o Concat(Tail(chunks))

\* what the callback is to receive for a complete body, as C5 states it
Expected(text) ==
  LET p == JSONparse(text)
      success == GetProp(p.v, "success")
      second == GetProp(GetProp(p.v, "data"), "_success")
  IN IF ~p.ok THEN [errors |-> { InvalidJSON }, response |-> Undefined]
     ELSE IF ~Truthy(success) \/ (second.t # "undefined" /\ ~Truthy(second))
       THEN [errors |-> ApiFailure, response |-> Undefined]
     ELSE [errors |-> { Null }, response |-> p.v]

\* C5: for every complete body the callback receives InvalidJSON, ApiFailure,
\* or (null, the parsed structure), the last whenever the body parses and no
\* flag is falsy, `data` absent included.
C5_ThreeOutcomes ==
  \A c \in DOMAIN requests :
    requests[c].state = "ended" =>
      /\ Cardinality(Invocations(c)) = 1
      /\ \A i \in Invocations(c) :
           /\ cbLog[i].error \in Expected(Concat(requests[c].arrived)).errors
           /\ cbLog[i].response = Expected(Concat(requests[c].arrived)).response

\* C6: a transport-level failure of a request reaches the call's callback as
\* its error argument, unmodified.
C6_TransportErrorToCallback ==
  \A c \in DOMAIN requests :
    requests[c].state = "errored" =>
      \E i \in Invocations(c) : cbLog[i].error = requests[c].failure

\* the path of a request: its uri without the endpoint
PathOf(uri) == SubSeq(uri, Len(ENDPOINT) + 1, Len(uri))

PathKinds == { "/player/", "/team/", "/service-state/" }

\* the segment of a request path that follows its kind, up to the next "/"
PlatformSegment(path) ==
  LET k == CHOOSE kind \in PathKinds : Sub(path, 1, Len(kind)) = kind
  IN SubSeq(path, Len(k) + 1, IndexOf(path, "/", Len(k) + 1) - 1)

\* C7: the platform segment of every request path is the short code of the
\* call's platform, whether the call named it by short code or by full name.
C7_ShortCodeInPath ==
  \A c \in DOMAIN requests :
    /\ Sub(requests[c].uri, 1, Len(ENDPOINT)) = ENDPOINT
    /\ \E kind \in PathKinds : Sub(PathOf(requests[c].uri), 1, Len(kind)) = kind
    /\ Known(calls[c].platform)
    /\ Str(PlatformSegment(PathOf(requests[c].uri))) \in ShortCodes
    /\ PlatformSegment(PathOf(requests[c].uri)) = ShortOf(calls[c].platform)

C7_Witness ==
  \E c \in DOMAIN requests :
    /\ calls[c].platform = Str("Latin_America_South")
    /\ PlatformSegment(PathOf(requests[c].uri)) = "las"

\* the sub-path each operation names
SubPath(op) ==
  CASE op = "player.ingame" -> "ingame"
    [] op = "player.recentGames" -> "recent_games"
    [] op = "player.influencePoints" -> "influence_points"
    [] op = "player.runes" -> "runes"
    [] op = "player.mastery" -> "mastery"
    [] op = "player.leagues" -> "leagues"
    [] op = "player.honor" -> "honor"
    [] op = "player.teams" -> "teams"
    [] OTHER -> ""

\* the path C8 states for a call with a known platform
StatedPath(call) ==
  LET S == ShortOf(call.platform) IN
  CASE call.op = "player" -> "/player/" \o S \o "/" \o call.id.s
    [] call.op = "player.rankedStats" ->
         "/player/" \o S \o "/" \o call.id.s \o "/ranked_stats/season/" \o call.season.lit
    [] call.op = "team" -> "/team/" \o S \o "/tag/" \o call.id.s
    [] call.op = "team.leagues" -> "/team/" \o S \o "/guid/" \o call.id.s \o "/leagues"
    [] call.op = "freeWeek" -> "/service-state/" \o S \o "/free-week"
    [] OTHER -> "/player/" \o S \o "/" \o call.id.s \o "/" \o SubPath(call.op)

\* C8: every call with a known platform and a function callback issues a GET
\* for the path of its operation, for every string identifier (the empty
\* string included) and every season (0 included).
C8_PathPerOperation ==
  \A c \in CallIds :
    (calls[c].callback.t = "function" /\ Known(calls[c].platform)) =>
      /\ c \in DOMAIN requests
      /\ requests[c].method = "GET"
      /\ requests[c].uri = ENDPOINT \o StatedPath(calls[c])

\* C9: the factory throws MissingConfig for a non-string argument and
\* returns no facade, so that without a string argument there is no facade,
\* no call and no request; for a string it returns a facade that holds the
\* string, and every request issued through a facade carries the string that
\* facade was made with as User-Agent, no call ever failing on the
\* configuration again.
C9_FactoryAndUserAgent ==
  /\ (factory.called /\ factory.arg.t # "string") =>
       /\ factory.error = MissingConfig
       /\ factory.returned = 0
  /\ (factory.called /\ factory.arg.t = "string") =>
       /\ factory.error = Null
       /\ factory.returned \in teemo
       /\ refererString[factory.returned] = factory.arg
  /\ teemo = {} => (calls = << >> /\ DOMAIN requests = {})
  /\ \A f \in teemo : refererString[f].t = "string"
  /\ \A c \in DOMAIN requests :
       /\ calls[c].facade \in teemo
       /\ requests[c].headers.UserAgent = refererString[calls[c].facade]
       /\ requests[c].headers.Accept = "application/json"
  /\ \A i \in DOMAIN thrown : thrown[i].error # MissingConfig

\* two facades made with different strings, a request through the first
\* one, and a latest factory call that threw
C9_Witness ==
  /\ Len(refererString) = 2
  /\ refererString[1] = Str("contact@example.com")
  /\ refererString[2] = Str("")
  /\ factory.arg = Undefined
  /\ factory.error = MissingConfig
  /\ \E c \in DOMAIN requests :
       /\ calls[c].facade = 1
       /\ requests[c].headers.UserAgent = Str("contact@example.com")

\* what the response handler makes of a complete body
Outcome(text) ==
  LET done == onEnd(JSONparse(text), Cb)
  IN [error |-> done.error, response |-> done.response]

\* C10: with several calls in flight on one client (or more), every callback
\* invoked for a request
\* is invoked after that request's 'end', with the outcome of the
\* concatenation of the chunks of its own response in arrival order.
C10_OwnChunksOnly ==
  \A c \in DOMAIN requests :
    \A i \in Invocations(c) :
      /\ requests[c].state = "ended"
      /\ ~cbLog[i].inCall
      /\ [error |-> cbLog[i].error, response |-> cbLog[i].response]
           = Outcome(Concat(requests[c].arrived))

\* both calls were in flight together (the second finished first), each got
\* chunks of its own, and the outcomes differ
C10_Witness ==
  /\ Len(cbLog) = 2
  /\ cbLog[1].call = 2
  /\ cbLog[2].call = 1
  /\ requests[1].arrived # << >>
  /\ requests[2].arrived # << >>
  /\ cbLog[1].error # cbLog[2].error

=============================================================================
